---- MODULE Spec2Model ----
(***************************************************************************)
(* TYSA - The Yapping Spotify Announcer (src/tysa.py).                     *)
(*                                                                         *)
(* The announcer polls the media player, and for every new track builds an *)
(* announcement text (template in basic mode, text-generation service with *)
(* a persisted cache in smart/wizard mode), synthesizes it to an audio     *)
(* file unless the file already exists, and plays it.                      *)
(*                                                                         *)
(* A Python string is a sequence of one-character strings, so that strip,  *)
(* split and the regular expressions of _sanitize_filename are computed as *)
(* the code computes them.  An Optional value is the empty sequence (None) *)
(* or a one-element sequence.                                              *)
(***************************************************************************)
EXTENDS Integers, Sequences, FiniteSets, TLC

VARIABLES
    pc,                 \* where main() is: "start" (before SpotifyAnnouncer()),
                        \* "running", "stopped" (returned), "crashed" (exit 1)
    environ,            \* os.environ: MODE, RUN_MODE and the two credentials
    mode,               \* self.mode
    now_playing_text,   \* self.now_playing_text
    by_text,            \* self.by_text
    last_track,         \* self.last_track (Optional track identifier)
    gpt_cache,          \* self.gpt_cache: cache key -> announcement
    cache_type,         \* type(self.gpt_cache): "dict", "list" or "str"
    cache_file,         \* the file self.gpt_cache_file on disk
    files,              \* the audio files in self.output_dir: path -> content
    last_snapshot,      \* the (song, artist) whose identifier last_track holds
    polls,              \* iterations of the polling loop performed so far
    last                \* what the most recent operation was given and did

vars == <<pc, environ, mode, now_playing_text, by_text, last_track, gpt_cache,
          cache_type, cache_file, files, last_snapshot, polls, last>>

-----------------------------------------------------------------------------
(* Bounds *)

\* Iterations of the polling loop that a behaviour of the model performs.
MaxPolls == 2

\* Iterations of the polling loop after a construction from an arbitrary
\* environment and cache file.
MaxStartupPolls == 1

\* Iterations of the polling loop in the runs over a few tracks.
MaxTrackPolls == 3

\* Iterations of the polling loop in the runs over tracks with similar names.
MaxNamePolls == 2

\* Length of the texts that _sanitize_filename is applied to.
MaxTextLen == 4

-----------------------------------------------------------------------------
(* Optional values and strings *)

None == <<>>
Some(x) == <<x>>

ModeBasic == <<"b", "a", "s", "i", "c">>
ModeSmart == <<"s", "m", "a", "r", "t">>
ModeWizard == <<"w", "i", "z", "a", "r", "d">>
Modes == {ModeBasic, ModeSmart, ModeWizard}

DefaultNowPlaying == <<"N", "o", "w", " ", "p", "l", "a", "y", "i", "n", "g">>
DefaultBy == <<"b", "y">>
SvNowPlaying == <<"N", "u", " ", "s", "p", "e", "l", "a", "s">>
SvBy == <<"a", "v">>

\* os.getenv('LANGUAGE_CODE', 'en')
language_code == <<"e", "n">>
\* os.getenv('OUTPUT_DIR', 'output')
output_dir == <<"o", "u", "t", "p", "u", "t">>

\* str.isspace() for the characters of the model's alphabet
Whitespace == {" ", "\n", "\t"}

AsciiLetters ==
    {"a", "b", "c", "d", "e", "f", "g", "h", "i", "j", "k", "l", "m",
     "n", "o", "p", "q", "r", "s", "t", "u", "v", "w", "x", "y", "z",
     "A", "B", "C", "D", "E", "F", "G", "H", "I", "J", "K", "L", "M",
     "N", "O", "P", "Q", "R", "S", "T", "U", "V", "W", "X", "Y", "Z"}
Digits == {"0", "1", "2", "3", "4", "5", "6", "7", "8", "9"}
\* letters outside ASCII: Python 3 str patterns are Unicode-aware
UnicodeLetters == {"é", "ö", "É", "Ö"}

\* the character class \w of a Python 3 str pattern
WordChars == AsciiLetters \cup Digits \cup UnicodeLetters \cup {"_"}
WordChar(c) == c \in WordChars

RECURSIVE LStripSet(_, _)
LStripSet(s, cs) ==
    IF s # <<>> /\ Head(s) \in cs THEN LStripSet(Tail(s), cs) ELSE s

RECURSIVE RStripSet(_, _)
RStripSet(s, cs) ==
    IF s # <<>> /\ s[Len(s)] \in cs
    THEN RStripSet(SubSeq(s, 1, Len(s) - 1), cs)
    ELSE s

\* str.strip(): leading and trailing whitespace removed
Strip(s) == RStripSet(LStripSet(s, Whitespace), Whitespace)

\* c in s
Contains(s, c) == \E i \in 1..Len(s) : s[i] = c

\* s.index(c), for a string that contains c
IndexOf(s, c) == CHOOSE i \in 1..Len(s) :
                    s[i] = c /\ \A j \in 1..(i - 1) : s[j] # c

\* s.split(c, 1), for a string that contains c
SplitFirst(s, c) ==
    <<SubSeq(s, 1, IndexOf(s, c) - 1), SubSeq(s, IndexOf(s, c) + 1, Len(s))>>

-----------------------------------------------------------------------------
(* _sanitize_filename *)

\* re.sub(r'[^\w\s-]', '', text)
RECURSIVE RemoveSpecial(_)
RemoveSpecial(s) ==
    IF s = <<>> THEN <<>>
    ELSE IF WordChar(Head(s)) \/ Head(s) \in Whitespace \/ Head(s) = "-"
         THEN <<Head(s)>> \o RemoveSpecial(Tail(s))
         ELSE RemoveSpecial(Tail(s))

\* re.sub(r'[\s]+', '_', s): every maximal run of whitespace becomes one "_"
RECURSIVE SpaceRunsToUnderscore(_)
SpaceRunsToUnderscore(s) ==
    IF s = <<>> THEN <<>>
    ELSE IF Head(s) \in Whitespace
         THEN <<"_">> \o SpaceRunsToUnderscore(LStripSet(s, Whitespace))
         ELSE <<Head(s)>> \o SpaceRunsToUnderscore(Tail(s))

\* Faulty variant: runs of underscores are left as they are
CollapseUnderscores_None(s) == s

\* re.sub(r'_+', '_', s): every maximal run of "_" becomes one "_"
RECURSIVE CollapseUnderscores(_)
CollapseUnderscores(s) ==
    IF s = <<>> THEN <<>>
    ELSE IF Head(s) = "_"
         THEN <<"_">> \o CollapseUnderscores(LStripSet(s, {"_"}))
         ELSE <<Head(s)>> \o CollapseUnderscores(Tail(s))

sanitize_filename(text) ==
    LET sanitized1 == RemoveSpecial(text)
        sanitized2 == SpaceRunsToUnderscore(sanitized1)
        sanitized3 == CollapseUnderscores(sanitized2)
    IN  RStripSet(LStripSet(sanitized3, {"_"}), {"_"})

\* f"{self.mode}_{self.language_code}_{safe_artist}_{safe_title}.mp3"
Filename(song, artist) ==
    mode \o <<"_">> \o language_code \o <<"_">> \o sanitize_filename(artist)
         \o <<"_">> \o sanitize_filename(song) \o <<".", "m", "p", "3">>

\* os.path.join(self.output_dir, filename)
FilePath(filename) == output_dir \o <<"/">> \o filename

-----------------------------------------------------------------------------
(* get_current_track *)

\* What subprocess.run(['osascript', ...], timeout=2) can do: complete with
\* a return code and a standard output, time out, fail with another
\* subprocess.SubprocessError, or fail to launch with an OSError.
QueryStdouts ==
    { <<>>,                                     \* player not running
      <<"\n">>,
      <<"a", "b", "\n">>,                       \* no separator
      <<"a", "|", "x", "\n">>,
      <<"a", "|", "y", "\n">>,                  \* same title, other artist
      <<" ", "b", " ", "|", " ", "x">> }        \* other title, padded

QueryOutcomes ==
    [kind : {"completed"}, returncode : {0}, stdout : QueryStdouts]
      \cup [kind : {"completed"}, returncode : {1},
            stdout : {<<>>, <<"a", "|", "x", "\n">>}]
      \cup [kind : {"timeout", "suberror", "oserror"}]

\* The value returned, or the exception that leaves the method.
get_current_track(q) ==
    IF q.kind = "completed"
    THEN IF q.returncode = 0 /\ Strip(q.stdout) # <<>>
              /\ Contains(Strip(q.stdout), "|")
         THEN LET parts == SplitFirst(Strip(q.stdout), "|")
              IN  [raised |-> FALSE,
                   value |-> Some(<<Strip(parts[1]), Strip(parts[2])>>)]
         ELSE [raised |-> FALSE, value |-> None]
    ELSE IF q.kind \in {"timeout", "suberror"}
         THEN [raised |-> FALSE, value |-> None]
         ELSE [raised |-> TRUE, value |-> None]

\* the outcome of the query as the caller of subprocess.run sees it
QueryKind(q) ==
    IF q.kind # "completed" THEN q.kind
    ELSE IF q.returncode # 0 THEN "nonzero"
    ELSE IF Strip(q.stdout) = <<>> THEN "empty"
    ELSE IF ~Contains(Strip(q.stdout), "|") THEN "noseparator"
    ELSE "track"

-----------------------------------------------------------------------------
(* The announcement cache: self.gpt_cache and its file *)

EmptyDict == [k \in {} |-> <<>>]

\* Faulty variant: the dict is replaced by one that holds the new entry only
Put_Replace(d, k, v) == [x \in {k} |-> v]

\* d[k] = v of a Python dict
Put(d, k, v) == [x \in DOMAIN d \cup {k} |-> IF x = k THEN v ELSE d[x]]

\* The cache file is missing, holds a JSON object (data), or holds text that
\* json.load rejects.
MissingFile == [kind |-> "missing", data |-> EmptyDict]
CorruptFile == [kind |-> "corrupt", data |-> EmptyDict]
DictFile(d) == [kind |-> "dict", data |-> d]
\* The file exists and open(..., 'r') fails.
UnreadableFile == [kind |-> "unreadable", data |-> EmptyDict]
\* The file holds a JSON array of strings (data: the list), a JSON string
\* (data: its characters), or a JSON number.
ListFile(items) == [kind |-> "list", data |-> items]
StringFile(chars) == [kind |-> "str", data |-> chars]
NumberFile == [kind |-> "number", data |-> EmptyDict]

\* The object returned: json.load's value when len() accepts it (a dict, a
\* list, a str), and {} when the file is missing or open, json.load or
\* len(cache) raises (a number has no len()).
load_gpt_cache(file) ==
    IF file.kind = "missing" THEN EmptyDict
    ELSE IF file.kind \in {"dict", "list", "str"} THEN file.data
    ELSE EmptyDict

\* the Python type of the object that load_gpt_cache returns
LoadedType(file) ==
    IF file.kind \in {"list", "str"} THEN file.kind ELSE "dict"

\* sub in s, for two Python strings
IsSubstring(sub, s) ==
    \E i \in 1..(Len(s) - Len(sub) + 1) : SubSeq(s, i, i + Len(sub) - 1) = sub

\* What open(self.gpt_cache_file, 'w') and json.dump can do: succeed, fail
\* to open (the file is left as it was), or fail while writing (open has
\* truncated the file and only a part of the text is written).
SaveOutcomes == {"ok", "open_fails", "write_fails"}

\* Faulty variant: a failure of the write is not caught
save_gpt_cache_Raising(cache, file, sv) ==
    [file |-> IF sv = "ok" THEN DictFile(cache)
              ELSE IF sv = "open_fails" THEN file
              ELSE CorruptFile,
     raised |-> sv # "ok"]

\* The file after the call, and whether an exception leaves the method.
save_gpt_cache(cache, file, sv) ==
    [file |-> IF sv = "ok" THEN DictFile(cache)
              ELSE IF sv = "open_fails" THEN file
              ELSE CorruptFile,
     raised |-> FALSE]

-----------------------------------------------------------------------------
(* generate_announcement *)

\* What self.openai_client.chat.completions.create can do: raise, answer
\* with an empty list of choices, or answer with a first choice whose
\* message content is None or a string.
GptContents ==
    { None,
      Some(<<>>),
      Some(<<" ">>),                        \* whitespace only
      Some(<<" ", "T", "\n">>) }            \* an announcement, padded

GptOutcomes ==
    [kind : {"error", "nochoices"}, content : {None}]
      \cup [kind : {"content"}, content : GptContents]

\* self.openai_client is set in __init__ exactly for smart and wizard
openai_client == mode \in {ModeSmart, ModeWizard}

\* Faulty variant: the phrases are hard-coded instead of read from the configuration
BasicTemplate_Defaults(song, artist) ==
    DefaultNowPlaying \o <<":", " ">> \o song \o <<" ", "-", " ">>
        \o DefaultBy \o <<" ", "-", " ">> \o artist

\* f"{self.now_playing_text}: {song} - {self.by_text} - {artist}"
BasicTemplate(song, artist) ==
    now_playing_text \o <<":", " ">> \o song \o <<" ", "-", " ">>
        \o by_text \o <<" ", "-", " ">> \o artist

\* f"Now playing: {song} - by - {artist}"
Fallback(song, artist) ==
    DefaultNowPlaying \o <<":", " ">> \o song \o <<" ", "-", " ">>
        \o DefaultBy \o <<" ", "-", " ">> \o artist

\* f"{song}|{artist}|{self.language_code}|{self.mode}"
CacheKey(song, artist) ==
    song \o <<"|">> \o artist \o <<"|">> \o language_code \o <<"|">> \o mode

\* Faulty variant: the lookup never finds the key
IsCached_Never(key) == FALSE

\* cache_key in self.gpt_cache: a key of the dict, an item of the list, a
\* substring of the str
IsCached(key) ==
    IF cache_type = "dict" THEN key \in DOMAIN gpt_cache
    ELSE IF cache_type = "list" THEN \E i \in 1..Len(gpt_cache) : gpt_cache[i] = key
    ELSE IsSubstring(key, gpt_cache)

\* Faulty variant: only a missing content counts as empty: "content is None"
ContentIsEmpty_NullOnly(content) == content = None

\* not content
ContentIsEmpty(content) == content = None \/ content[1] = <<>>

\* The value returned and what the call did: the cache and its file after
\* the call, whether the key was found, the reply of the text-generation
\* service ("none" when it was not called) and the outcome of the save
\* ("none" when nothing was saved).
GenResult(ret, cache, file, hit, reply, saved) ==
    [ret |-> ret, gpt_cache |-> cache, cache_file |-> file,
     cache_hit |-> hit, gpt_reply |-> reply, save_result |-> saved,
     raised |-> FALSE]

\* the reply as the caller sees it
ReplyKind(g) ==
    IF g.kind # "content" THEN g.kind
    ELSE IF g.content = None THEN "null"
    ELSE IF g.content[1] = <<>> THEN "empty"
    ELSE IF Strip(g.content[1]) = <<>> THEN "blank"
    ELSE "text"

generate_announcement(song, artist, g, sv) ==
    IF mode = ModeBasic
    THEN GenResult(BasicTemplate(song, artist), gpt_cache, cache_file,
                   FALSE, "none", "none")
    ELSE IF ~openai_client
    THEN GenResult(Fallback(song, artist), gpt_cache, cache_file,
                   FALSE, "none", "none")
    ELSE IF IsCached(CacheKey(song, artist)) /\ cache_type # "dict"
    THEN \* self.gpt_cache[cache_key] of a list or a str: TypeError, outside
         \* the try of line 238
         [GenResult(<<>>, gpt_cache, cache_file, TRUE, "none", "none")
            EXCEPT !.raised = TRUE]
    ELSE IF IsCached(CacheKey(song, artist))
    THEN GenResult(gpt_cache[CacheKey(song, artist)], gpt_cache, cache_file,
                   TRUE, "none", "none")
    ELSE IF g.kind \in {"error", "nochoices"}
    THEN GenResult(Fallback(song, artist), gpt_cache, cache_file,
                   FALSE, ReplyKind(g), "none")
    ELSE IF ContentIsEmpty(g.content)
    THEN GenResult(Fallback(song, artist), gpt_cache, cache_file,
                   FALSE, ReplyKind(g), "none")
    ELSE IF cache_type # "dict"
    THEN \* self.gpt_cache[cache_key] = announcement of a list or a str:
         \* TypeError, caught at line 263
         GenResult(Fallback(song, artist), gpt_cache, cache_file,
                   FALSE, ReplyKind(g), "none")
    ELSE LET announcement == Strip(g.content[1])
             cache == Put(gpt_cache, CacheKey(song, artist), announcement)
             saved == save_gpt_cache(cache, cache_file, sv)
         IN  GenResult(IF saved.raised THEN Fallback(song, artist)
                       ELSE announcement,
                       cache, saved.file, FALSE, ReplyKind(g), sv)

-----------------------------------------------------------------------------
(* generate_speech and _play_audio *)

\* What text_to_speech.convert and the write of the audio file can do:
\* deliver a non-empty payload that is written ("audio"), deliver an empty
\* payload ("empty"), raise before the file is created ("error": the service
\* fails, or open(output_path, 'wb') fails), or raise after open has created
\* the file ("write_fails": f.write fails and the file keeps a part of the
\* payload).
TtsOutcomes == {"audio", "empty", "error", "write_fails"}

\* An audio file: the text it was synthesized from, and whether the whole
\* payload was written.
Audio(text, complete) == [text |-> text, complete |-> complete]

\* The path returned (None on failure) and the output directory afterwards.
\* The exception of a failed write is caught at line 326, and the file that
\* open created stays.
generate_speech(text, output_filename, t) ==
    IF t = "audio"
    THEN [ret |-> Some(FilePath(output_filename)),
          files |-> Put(files, FilePath(output_filename), Audio(text, TRUE))]
    ELSE IF t = "write_fails"
    THEN [ret |-> None,
          files |-> Put(files, FilePath(output_filename), Audio(text, FALSE))]
    ELSE [ret |-> None, files |-> files]

\* What subprocess.run(['afplay', ...], check=True, timeout=30) can do.
PlayOutcomes == {"ok", "timeout", "failed", "error"}

\* _play_audio returns True or False and never raises
play_audio(p) == p = "ok"

-----------------------------------------------------------------------------
(* process_current_track *)

\* Faulty variant: the identifier is the title alone
TrackIdentifier_SongOnly(song, artist) == song

\* f"{song}|{artist}"
TrackIdentifier(song, artist) == song \o <<"|">> \o artist

\* Faulty variant: the existence check is dropped
FileExists_Never(path) == FALSE

\* os.path.exists(file_path)
FileExists(path) == path \in DOMAIN files

\* Faulty variant: the track is marked only when the call succeeds
TrackAfter_OnSuccess(track_identifier, ret) ==
    IF ret THEN Some(track_identifier) ELSE last_track

\* self.last_track at the end of a call that detected a new track: it is
\* assigned before generation and synthesis (line 348) and not assigned
\* again, whatever value the call returns
TrackAfter(track_identifier, ret) == Some(track_identifier)

\* Faulty variant: the track is forgotten when nothing is playing
TrackWhenIdle_Reset == None

\* self.last_track at the end of a call that detected no new track: the
\* call returns at line 339 or 346 and does not assign it
TrackWhenIdle == last_track

\* Faulty variant: the reuse of an existing file does not count as processed
Processed_SpeechOnly(reused, audio_path) == audio_path # None

\* the value returned after the audio step: a file was reused, or
\* generate_speech returned its path
Processed(reused, audio_path) == reused \/ audio_path # None

\* An operation that did nothing: the record of what an operation was given
\* and did, with every collaborator untouched.
Idle ==
    [op |-> "startup", raised |-> FALSE, ret |-> FALSE, outcome |-> "none",
     query |-> "none", track |-> None, announcement |-> None, cache_hit |-> FALSE,
     gpt_reply |-> "none", save_result |-> "none", reused |-> FALSE,
     tts_reply |-> "none", play_result |-> "none", played |-> None,
     text |-> None, sanitized |-> None]

\* The state after the call and the record of the call.
process_current_track(q, g, sv, t, p) ==
    LET track_info == get_current_track(q)
        unchanged == [last_track |-> TrackWhenIdle, gpt_cache |-> gpt_cache,
                      cache_file |-> cache_file, files |-> files,
                      last_snapshot |-> last_snapshot]
    IN
    IF track_info.raised
    THEN unchanged @@ [obs |-> [Idle EXCEPT !.op = "process",
                                            !.query = QueryKind(q),
                                            !.raised = TRUE,
                                            !.outcome = "raised"]]
    ELSE IF track_info.value = None
    THEN unchanged @@ [obs |-> [Idle EXCEPT !.op = "process",
                                            !.query = QueryKind(q)]]
    ELSE
    LET song == track_info.value[1][1]
        artist == track_info.value[1][2]
        track_identifier == TrackIdentifier(song, artist)
    IN
    IF Some(track_identifier) = last_track
    THEN unchanged @@ [obs |-> [Idle EXCEPT !.op = "process",
                                            !.query = QueryKind(q),
                                            !.outcome = "same",
                                            !.track = Some(<<song, artist>>)]]
    ELSE
    LET gen == generate_announcement(song, artist, g, sv)
    IN
    IF gen.raised
    THEN [unchanged EXCEPT !.last_track = Some(track_identifier),
                           !.last_snapshot = Some(<<song, artist>>)]
           @@ [obs |-> [Idle EXCEPT !.op = "process",
                                    !.query = QueryKind(q),
                                    !.raised = TRUE,
                                    !.outcome = "raised",
                                    !.track = Some(<<song, artist>>),
                                    !.cache_hit = TRUE]]
    ELSE
    LET filename == Filename(song, artist)
        file_path == FilePath(filename)
        reused == FileExists(file_path)
        speech == IF reused THEN [ret |-> None, files |-> files]
                  ELSE generate_speech(gen.ret, filename, t)
        playing == reused \/ speech.ret # None
        obs == [Idle EXCEPT !.op = "process",
                            !.query = QueryKind(q),
                            !.outcome = "new",
                            !.track = Some(<<song, artist>>),
                            !.announcement = Some(gen.ret),
                            !.cache_hit = gen.cache_hit,
                            !.gpt_reply = gen.gpt_reply,
                            !.save_result = gen.save_result,
                            !.reused = reused,
                            !.tts_reply = IF reused THEN "none" ELSE t,
                            !.play_result = IF ~playing THEN "none"
                                            ELSE IF play_audio(p) THEN "ok"
                                            ELSE "failed",
                            !.played = IF reused THEN Some(file_path)
                                       ELSE speech.ret,
                            !.ret = Processed(reused, speech.ret)]
    IN  [last_track |-> TrackAfter(track_identifier, obs.ret),
         gpt_cache |-> gen.gpt_cache,
         cache_file |-> gen.cache_file,
         files |-> speech.files,
         last_snapshot |-> Some(<<song, artist>>),
         obs |-> obs]

-----------------------------------------------------------------------------
(* __init__, run_continuous and main *)

\* os.getenv(name, default): an unset variable is None
Getenv(value, default) == IF value = None THEN default ELSE value[1]

\* the upper-case letters and, at the same places, their lower-case letters
UpperLetters ==
    <<"A", "B", "C", "D", "E", "F", "G", "H", "I", "J", "K", "L", "M",
      "N", "O", "P", "Q", "R", "S", "T", "U", "V", "W", "X", "Y", "Z",
      "É", "Ö">>
LowerLetters ==
    <<"a", "b", "c", "d", "e", "f", "g", "h", "i", "j", "k", "l", "m",
      "n", "o", "p", "q", "r", "s", "t", "u", "v", "w", "x", "y", "z",
      "é", "ö">>

\* the lower-case letter of every upper-case letter
LowerOf ==
    [c \in {UpperLetters[i] : i \in 1..Len(UpperLetters)} |->
        LowerLetters[CHOOSE i \in 1..Len(UpperLetters) : UpperLetters[i] = c]]

\* str.lower() of one character: an upper-case letter becomes its
\* lower-case letter, every other character is kept
LowerChar(c) == IF c \in DOMAIN LowerOf THEN LowerOf[c] ELSE c

\* str.lower()
Lower(str) == [i \in 1..Len(str) |-> LowerChar(str[i])]

\* not os.getenv(var): the variable is unset or empty
EnvMissing(value) == value = None \/ value[1] = <<>>

\* _validate_env_vars appends OPENAI_API_KEY to the required variables
\* (lines 106-108): the MODE of the environment, lower-cased, is smart or
\* wizard (an unset MODE reads as smart)
OpenAIRequired(env) ==
    Lower(Getenv(env.MODE, ModeSmart)) \in {ModeSmart, ModeWizard}

\* _validate_env_vars raises ValueError
validate_env_vars(env) ==
    \/ EnvMissing(env.ELEVENLABS_API_KEY)
    \/ OpenAIRequired(env) /\ EnvMissing(env.OPENAI_API_KEY)

\* self.mode after lines 42-45
EffectiveMode(env) ==
    IF Lower(Getenv(env.MODE, ModeSmart)) \in Modes
    THEN Lower(Getenv(env.MODE, ModeSmart))
    ELSE ModeSmart

\* What OpenAI(api_key=os.getenv('OPENAI_API_KEY')) can do: return a
\* client, or raise.  The class is the client library's; it is given None
\* exactly when the variable is unset, and only then may it refuse the key.
ClientOutcomes(env) ==
    IF EffectiveMode(env) \in {ModeSmart, ModeWizard}
          /\ env.OPENAI_API_KEY = None
    THEN {"ok", "raises"}
    ELSE {"ok"}

\* os.getenv('RUN_MODE', 'continuous').lower() == 'once' (lines 411-413):
\* main calls run_once, and run_continuous for every other value
RunContinuous == <<"c", "o", "n", "t", "i", "n", "u", "o", "u", "s">>
RunOnceValue == <<"o", "n", "c", "e">>
IsOnce(env) == Lower(Getenv(env.RUN_MODE, RunContinuous)) = RunOnceValue

\* the run mode of the process
Once == IsOnce(environ)

\* The environments of the model: MODE unset, empty, valid (lower or upper
\* case) or invalid, RUN_MODE unset, once (lower or upper case) or another
\* value, and each credential unset, empty or set.
ApiKey == <<"k">>
EnvModes ==
    { None, Some(<<>>), Some(ModeBasic), Some(ModeSmart), Some(ModeWizard),
      Some(<<"B", "A", "S", "I", "C">>), Some(<<"r", "a", "p">>) }
EnvRunModes ==
    { None, Some(RunOnceValue), Some(<<"O", "n", "c", "e">>),
      Some(<<"l", "o", "o", "p">>) }
EnvKeys == { None, Some(<<>>), Some(ApiKey) }
Environs ==
    [MODE : EnvModes, RUN_MODE : EnvRunModes, ELEVENLABS_API_KEY : EnvKeys,
     OPENAI_API_KEY : EnvKeys]

\* an environment in which every mode starts
GoodEnviron(m, r) ==
    [MODE |-> Some(m), RUN_MODE |-> r, ELEVENLABS_API_KEY |-> Some(ApiKey),
     OPENAI_API_KEY |-> Some(ApiKey)]

\* The configurations of the model: MODE, NOW_PLAYING_TEXT, BY_TEXT and
\* RUN_MODE of the environment: basic mode and a generative mode in
\* continuous mode, and basic mode and a generative mode in once mode, with
\* the default phrases and with other phrases.
Envs ==
    { [mode |-> ModeBasic, now_playing_text |-> DefaultNowPlaying,
       by_text |-> DefaultBy, run_mode |-> None],
      [mode |-> ModeBasic, now_playing_text |-> SvNowPlaying,
       by_text |-> SvBy, run_mode |-> Some(RunOnceValue)],
      [mode |-> ModeSmart, now_playing_text |-> SvNowPlaying,
       by_text |-> SvBy, run_mode |-> None],
      [mode |-> ModeWizard, now_playing_text |-> DefaultNowPlaying,
       by_text |-> DefaultBy, run_mode |-> Some(RunOnceValue)] }

\* The cache file that the first run finds: none, or one that an earlier
\* installation left, with an announcement for the track (a, x).
OldAnnouncement == <<"O">>
InitialCacheFiles(m) ==
    { MissingFile,
      DictFile(Put(EmptyDict,
                   <<"a", "|", "x", "|">> \o language_code \o <<"|">> \o m,
                   OldAnnouncement)) }

\* The state after SpotifyAnnouncer(): the configuration read, no track seen,
\* the cache loaded, and an empty output directory.
Init ==
    /\ \E env \in Envs :
          /\ mode = env.mode
          /\ now_playing_text = env.now_playing_text
          /\ by_text = env.by_text
          /\ environ = GoodEnviron(env.mode, env.run_mode)
    /\ pc = "running"
    /\ last_track = None
    /\ cache_file \in InitialCacheFiles(mode)
    /\ gpt_cache = load_gpt_cache(cache_file)
    /\ cache_type = LoadedType(cache_file)
    /\ files = EmptyDict
    /\ last_snapshot = None
    /\ polls = 0
    /\ last = Idle

\* A call of process_current_track by run_continuous or run_once: the state
\* after the call and its record.
ProcessCall(q, g, sv, t, p) ==
    /\ pc = "running"
    /\ \E r \in {process_current_track(q, g, sv, t, p)} :
           /\ last_track' = r.last_track
           /\ gpt_cache' = r.gpt_cache
           /\ cache_file' = r.cache_file
           /\ files' = r.files
           /\ last_snapshot' = r.last_snapshot
           /\ last' = r.obs
    /\ polls' = polls + 1
    /\ UNCHANGED <<environ, mode, now_playing_text, by_text, cache_type>>

\* One iteration of the loop of run_continuous: process_current_track and
\* the sleep.  An exception leaving process_current_track leaves the loop,
\* is logged and re-raised (lines 392-394), and main exits with status 1.
Iteration(q, g, sv, t, p) ==
    /\ ~Once
    /\ ProcessCall(q, g, sv, t, p)
    /\ pc' = IF last'.raised THEN "crashed" ELSE "running"

\* run_once: process_current_track is called once and main returns; an
\* exception leaving it is caught by main, which exits with status 1
\* (lines 418-420).
run_once(q, g, sv, t, p) ==
    /\ Once
    /\ ProcessCall(q, g, sv, t, p)
    /\ pc' = IF last'.raised THEN "crashed" ELSE "stopped"

\* The outcomes of the collaborators that a call of process_current_track
\* consults, as tuples <<q, g, sv, t, p>>; those of a collaborator it does
\* not consult are not enumerated.  The text-generation service is consulted
\* on a cache miss in smart and wizard mode, the cache file is written after
\* a reply that is kept, the speech service is consulted when no audio file
\* exists, the player when there is a file.
NotConsultedGpt == [kind |-> "error", content |-> None]

Consulted ==
    UNION {
      LET track_info == get_current_track(q)
          new == /\ ~track_info.raised
                 /\ track_info.value # None
                 /\ Some(TrackIdentifier(track_info.value[1][1],
                                         track_info.value[1][2])) # last_track
          miss == /\ new
                  /\ mode # ModeBasic
                  /\ ~IsCached(CacheKey(track_info.value[1][1],
                                        track_info.value[1][2]))
          returns == new /\ (mode = ModeBasic \/ miss \/ cache_type = "dict")
          absent == /\ returns
                    /\ ~FileExists(FilePath(Filename(track_info.value[1][1],
                                                     track_info.value[1][2])))
      IN  UNION {
            UNION {
              UNION {
                { <<q, g, sv, t, p>> :
                    p \in IF returns /\ (~absent \/ t = "audio")
                          THEN PlayOutcomes ELSE {"ok"} }
                : t \in IF absent THEN TtsOutcomes ELSE {"audio"} }
              : sv \in IF miss /\ ReplyKind(g) \in {"blank", "text"}
                             /\ cache_type = "dict"
                       THEN SaveOutcomes ELSE {"ok"} }
            : g \in IF miss THEN GptOutcomes ELSE {NotConsultedGpt} }
      : q \in QueryOutcomes }

\* The loop of run_continuous performs an iteration.
Poll ==
    /\ pc = "running"
    /\ ~Once
    /\ polls < MaxPolls
    /\ \E o \in Consulted : Iteration(o[1], o[2], o[3], o[4], o[5])

\* main in once mode performs its single call.
RunOnce ==
    /\ pc = "running"
    /\ Once
    /\ polls < MaxPolls
    /\ \E o \in Consulted : run_once(o[1], o[2], o[3], o[4], o[5])

\* KeyboardInterrupt during the sleep: run_continuous returns (line 391).
Interrupt ==
    /\ pc = "running"
    /\ ~Once
    /\ pc' = "stopped"
    /\ last' = [Idle EXCEPT !.op = "interrupt"]
    /\ UNCHANGED <<environ, mode, now_playing_text, by_text, last_track,
                   gpt_cache, cache_type, cache_file, files, last_snapshot,
                   polls>>

\* Where a KeyboardInterrupt can cut a call of process_current_track, named
\* by what the call has done when it arrives:
\*   "query"      nothing: it is in get_current_track, or it found no new
\*                track (lines 337-346);
\*   "marked"     last_track is assigned (348) and the announcement is not
\*                yet made (the text-generation service may be answering);
\*   "stored"     the new entry is in self.gpt_cache (258) and the cache
\*                file is not yet opened;
\*   "save"       the cache file is opened for writing and json.dump has not
\*                finished (95-96);
\*   "announced"  generate_announcement has returned and no audio file is
\*                opened: the speech service is answering, or the existing
\*                file is played (351-368, 305-319);
\*   "speech"     the audio file is opened and f.write has not finished
\*                (320-321);
\*   "written"    the audio file is written, before, during or after its
\*                playback (323, 373-376).
\* No handler below run_continuous catches the interrupt (they catch
\* Exception), so that the rest of the call is skipped.
InterruptPoints ==
    {"query", "marked", "stored", "save", "announced", "speech", "written"}

\* The state that the cut call leaves and its record.
interrupted_iteration(q, g, sv, point) ==
    LET rec == [Idle EXCEPT !.op = "interrupt", !.outcome = point]
    IN
    IF point = "query"
    THEN [last_track |-> last_track, last_snapshot |-> last_snapshot,
          gpt_cache |-> gpt_cache, cache_file |-> cache_file,
          files |-> files, obs |-> rec]
    ELSE
    LET song == get_current_track(q).value[1][1]
        artist == get_current_track(q).value[1][2]
        file_path == FilePath(Filename(song, artist))
        marked == [last_track |-> Some(TrackIdentifier(song, artist)),
                   last_snapshot |-> Some(<<song, artist>>)]
        tracked == [rec EXCEPT !.query = QueryKind(q),
                               !.track = Some(<<song, artist>>)]
        gen == generate_announcement(song, artist, g, sv)
        announced == [tracked EXCEPT !.announcement = Some(gen.ret),
                                     !.cache_hit = gen.cache_hit,
                                     !.gpt_reply = gen.gpt_reply,
                                     !.save_result = gen.save_result]
    IN
    IF point = "marked"
    THEN marked @@ [gpt_cache |-> gpt_cache, cache_file |-> cache_file,
                    files |-> files, obs |-> tracked]
    ELSE IF point = "stored"
    THEN marked @@ [gpt_cache |-> gen.gpt_cache, cache_file |-> cache_file,
                    files |-> files,
                    obs |-> [tracked EXCEPT !.gpt_reply = gen.gpt_reply]]
    ELSE IF point = "save"
    THEN marked @@ [gpt_cache |-> gen.gpt_cache, cache_file |-> CorruptFile,
                    files |-> files,
                    obs |-> [tracked EXCEPT !.gpt_reply = gen.gpt_reply]]
    ELSE IF point = "announced"
    THEN marked @@ [gpt_cache |-> gen.gpt_cache, cache_file |-> gen.cache_file,
                    files |-> files,
                    obs |-> [announced EXCEPT !.reused = FileExists(file_path)]]
    ELSE marked @@ [gpt_cache |-> gen.gpt_cache, cache_file |-> gen.cache_file,
                    files |-> Put(files, file_path,
                                  Audio(gen.ret, point = "written")),
                    obs |-> [announced EXCEPT !.tts_reply = "audio"]]

\* The cuts that a call can suffer in the current state, as tuples
\* <<q, g, sv, point>>: the point must be one that the call reaches with
\* these outcomes of the collaborators.
Interruptible ==
    UNION {
      LET track_info == get_current_track(q)
          new == /\ ~track_info.raised
                 /\ track_info.value # None
                 /\ Some(TrackIdentifier(track_info.value[1][1],
                                         track_info.value[1][2])) # last_track
          miss == /\ new
                  /\ mode # ModeBasic
                  /\ ~IsCached(CacheKey(track_info.value[1][1],
                                        track_info.value[1][2]))
          returns == new /\ (mode = ModeBasic \/ miss \/ cache_type = "dict")
          absent == /\ returns
                    /\ ~FileExists(FilePath(Filename(track_info.value[1][1],
                                                     track_info.value[1][2])))
          kept == {g \in IF miss /\ cache_type = "dict"
                         THEN GptOutcomes ELSE {} :
                      ReplyKind(g) \in {"blank", "text"}}
      IN  {<<q, NotConsultedGpt, "ok", "query">>}
            \cup (IF new THEN {<<q, NotConsultedGpt, "ok", "marked">>} ELSE {})
            \cup {<<q, g, "ok", point>> : g \in kept, point \in {"stored", "save"}}
            \cup UNION {
                   { <<q, g, sv, point>> :
                       sv \in IF g \in kept THEN SaveOutcomes ELSE {"ok"},
                       point \in {"announced"}
                                   \cup IF absent THEN {"speech", "written"}
                                        ELSE {} }
                   : g \in IF ~returns THEN {}
                           ELSE IF miss THEN GptOutcomes
                           ELSE {NotConsultedGpt} }
      : q \in QueryOutcomes }

\* KeyboardInterrupt during the call of process_current_track: in continuous
\* mode run_continuous returns (line 391); in once mode neither run_once nor
\* main catches it, and it ends the process.  The cut call is not the last
\* call of a behaviour: the program can be started again and poll.
InterruptedIteration ==
    /\ pc = "running"
    /\ polls + 1 < MaxPolls
    /\ \E c \in Interruptible :
        \E r \in {interrupted_iteration(c[1], c[2], c[3], c[4])} :
           /\ last_track' = r.last_track
           /\ last_snapshot' = r.last_snapshot
           /\ gpt_cache' = r.gpt_cache
           /\ cache_file' = r.cache_file
           /\ files' = r.files
           /\ last' = r.obs
    /\ pc' = "stopped"
    /\ polls' = polls + 1
    /\ UNCHANGED <<environ, mode, now_playing_text, by_text, cache_type>>

\* The program is started again with the same environment: __init__.
Startup ==
    /\ pc \in {"stopped", "crashed"}
    /\ pc' = "running"
    /\ last_track' = None
    /\ last_snapshot' = None
    /\ gpt_cache' = load_gpt_cache(cache_file)
    /\ cache_type' = LoadedType(cache_file)
    /\ last' = Idle
    /\ UNCHANGED <<environ, mode, now_playing_text, by_text, cache_file, files,
                   polls>>

Next == Poll \/ RunOnce \/ Interrupt \/ InterruptedIteration \/ Startup

Spec == Init /\ [][Next]_vars

-----------------------------------------------------------------------------
(* main from an arbitrary environment and cache file *)

\* The cache files that a start can find, for the track (a, x) in smart mode.
StartupKey == <<"a", "|", "x", "|">> \o language_code \o <<"|">> \o ModeSmart
StartupCacheFiles ==
    { MissingFile, UnreadableFile, CorruptFile, NumberFile,
      DictFile(EmptyDict),
      DictFile(Put(EmptyDict, StartupKey, OldAnnouncement)),
      ListFile(<<>>),
      ListFile(<<StartupKey>>),
      StringFile(<<"z">>),
      StringFile(<<"z">> \o StartupKey) }

\* main() has been entered and SpotifyAnnouncer() not yet called: every
\* environment with no cache file, and a smart-mode environment with every
\* cache file.
InitStartup ==
    /\ pc = "start"
    /\ \/ environ \in Environs /\ cache_file = MissingFile
       \/ /\ \E r \in EnvRunModes : environ = GoodEnviron(ModeSmart, r)
          /\ cache_file \in StartupCacheFiles
    /\ mode = None
    /\ now_playing_text = DefaultNowPlaying
    /\ by_text = DefaultBy
    /\ last_track = None
    /\ gpt_cache = EmptyDict
    /\ cache_type = "dict"
    /\ files = EmptyDict
    /\ last_snapshot = None
    /\ polls = 0
    /\ last = [Idle EXCEPT !.op = "none"]

\* SpotifyAnnouncer() in main: _validate_env_vars, the mode, the clients
\* and the cache.  An exception is caught by main, which exits with status
\* 1 (lines 418-420).
Construct ==
    /\ pc = "start"
    /\ IF validate_env_vars(environ)
       THEN /\ pc' = "crashed"
            /\ last' = [Idle EXCEPT !.raised = TRUE, !.outcome = "validate"]
            /\ UNCHANGED <<mode, gpt_cache, cache_type>>
       ELSE \E c \in ClientOutcomes(environ) :
              IF c = "raises"
              THEN /\ pc' = "crashed"
                   /\ mode' = EffectiveMode(environ)
                   /\ last' = [Idle EXCEPT !.raised = TRUE, !.outcome = "client"]
                   /\ UNCHANGED <<gpt_cache, cache_type>>
              ELSE /\ pc' = "running"
                   /\ mode' = EffectiveMode(environ)
                   /\ gpt_cache' = load_gpt_cache(cache_file)
                   /\ cache_type' = LoadedType(cache_file)
                   /\ last' = Idle
    /\ UNCHANGED <<environ, now_playing_text, by_text, last_track, cache_file,
                   files, last_snapshot, polls>>

\* the first iterations of the loop of run_continuous
FirstPoll ==
    /\ polls < MaxStartupPolls
    /\ Poll

\* the call of run_once
FirstRunOnce ==
    /\ polls < MaxStartupPolls
    /\ RunOnce

NextStartup == Construct \/ FirstPoll \/ FirstRunOnce

SpecStartup == InitStartup /\ [][NextStartup]_vars

-----------------------------------------------------------------------------

(* Longer runs of the polling loop over a few tracks *)

\* The polls of these runs: the track (a, x), the track (b, x), a player
\* that is not running, and a query that times out.
TrackQueries ==
    [kind : {"completed"}, returncode : {0},
     stdout : {<<"a", "|", "x", "\n">>, <<"b", "|", "x", "\n">>, <<>>}]
      \cup [kind : {"timeout"}]

\* The replies of the text-generation service in these runs.
TrackGptOutcomes ==
    { [kind |-> "content", content |-> Some(<<" ", "T", "\n">>)],
      [kind |-> "error", content |-> None] }

\* An iteration of the loop; the cache file is written and the audio is
\* played without failure, synthesis succeeds or fails.
TrackPoll ==
    /\ polls < MaxTrackPolls
    /\ \E q \in TrackQueries :
        \E g \in TrackGptOutcomes :
          \E t \in {"audio", "error"} :
            Iteration(q, g, "ok", t, "ok")

NextTracks == TrackPoll

SpecTracks == Init /\ [][NextTracks]_vars

-----------------------------------------------------------------------------

(* Runs of the polling loop over tracks with similar names *)

\* The polls of these runs: titles and artists that differ in punctuation,
\* in whitespace against underscore, and in where the artist ends and the
\* title begins.
NameQueries ==
    [kind : {"completed"}, returncode : {0},
     stdout : { <<"a", "|", "x", "\n">>,
                <<"a", "!", "|", "x", "\n">>,
                <<"a", " ", "b", "|", "x", "\n">>,
                <<"a", "_", "b", "|", "x", "\n">>,
                <<"b", "|", "x", " ", "a", "\n">>,
                <<>> }]

\* An iteration of the loop; generation and synthesis succeed or fail, the
\* cache file is written and the audio is played without failure.
NamePoll ==
    /\ polls < MaxNamePolls
    /\ \E q \in NameQueries :
        \E g \in TrackGptOutcomes :
          \E t \in {"audio", "error"} :
            Iteration(q, g, "ok", t, "ok")

NextNames == NamePoll

SpecNames == Init /\ [][NextNames]_vars

-----------------------------------------------------------------------------

(* _sanitize_filename on arbitrary texts *)

\* The characters of the texts: an ASCII letter, a letter outside ASCII, the
\* underscore, the space, the hyphen and a punctuation mark.
TextChars == {"a", "é", "_", " ", "-", "!"}

\* the texts of n characters
RECURSIVE TextsOfLen(_)
TextsOfLen(n) ==
    IF n = 0 THEN {<<>>}
    ELSE {<<c>> \o s : c \in TextChars, s \in TextsOfLen(n - 1)}

Texts == UNION {TextsOfLen(n) : n \in 0..MaxTextLen}

\* self._sanitize_filename(text), called once, on any text
SanitizeCall ==
    /\ last.op # "sanitize"
    /\ \E text \in Texts :
          last' = [Idle EXCEPT !.op = "sanitize",
                               !.text = Some(text),
                               !.sanitized = Some(sanitize_filename(text))]
    /\ UNCHANGED <<pc, environ, mode, now_playing_text, by_text, last_track,
                   gpt_cache, cache_type, cache_file, files, last_snapshot,
                   polls>>

NextSanitize == SanitizeCall

SpecSanitize == Init /\ [][NextSanitize]_vars

-----------------------------------------------------------------------------

(* Properties *)

\* smart or wizard mode
Generative == mode \in {ModeSmart, ModeWizard}

\* The step is a call of process_current_track that an interrupt did not
\* cut: it returned or raised.
PollStep == polls' = polls + 1 /\ last'.op = "process"

\* The step is an iteration that ran the pipeline, so that it called
\* generate_announcement(StepSong, StepArtist).
Announced == PollStep /\ last'.outcome = "new"
StepSong == last'.track[1][1]
StepArtist == last'.track[1][2]

\* the cache key (song, artist, languageCode, mode) of the step's track
StepKey ==
    StepSong \o <<"|">> \o StepArtist \o <<"|", "e", "n", "|">> \o mode

\* "Now playing: {song} - by - {artist}" for the step's track
StepFallback ==
    <<"N", "o", "w", " ", "p", "l", "a", "y", "i", "n", "g", ":", " ">>
        \o StepSong \o <<" ", "-", " ", "b", "y", " ", "-", " ">> \o StepArtist

\* outputDir/{mode}_{languageCode}_{sanitize(artist)}_{sanitize(title)}.mp3
\* for a track
AudioPath(song, artist) ==
    <<"o", "u", "t", "p", "u", "t", "/">> \o mode \o <<"_", "e", "n", "_">>
        \o sanitize_filename(artist) \o <<"_">> \o sanitize_filename(song)
        \o <<".", "m", "p", "3">>

\* The record of an operation names no collaborator as called.
NoCollaborator(rec) ==
    /\ rec.announcement = None
    /\ rec.gpt_reply = "none"
    /\ rec.save_result = "none"
    /\ rec.tts_reply = "none"
    /\ rec.play_result = "none"
    /\ rec.played = None

\* C1: in smart or wizard mode, a call of generate_announcement whose key is
\* in the in-memory cache returns the cached text, does not call the
\* text-generation service and does not write the cache or its file; and a
\* call that generates a text successfully leaves that text under the key,
\* so that the next call with the same inputs returns the same string
\* without a second call of the service.
C1_CacheHitShortCircuits ==
    [][(Announced /\ Generative) =>
          /\ StepKey \in DOMAIN gpt_cache =>
                /\ last'.announcement = Some(gpt_cache[StepKey])
                /\ last'.gpt_reply = "none"
                /\ last'.save_result = "none"
                /\ gpt_cache' = gpt_cache
                /\ cache_file' = cache_file
          /\ (StepKey \notin DOMAIN gpt_cache
                /\ last'.gpt_reply \in {"text", "blank"}) =>
                /\ StepKey \in DOMAIN gpt_cache'
                /\ last'.announcement = Some(gpt_cache'[StepKey])]_vars

\* A text generated by an earlier call is returned from the cache.
C1_Witness ==
    /\ Generative
    /\ last.outcome = "new"
    /\ last.cache_hit
    /\ last.gpt_reply = "none"
    /\ last.announcement = Some(<<"T">>)

\* C2: in smart or wizard mode, when the text-generation service fails on a
\* cache miss (it raises, answers without choices, or answers with a null or
\* empty content), generate_announcement returns
\* "Now playing: {song} - by - {artist}" and leaves the cache and its file
\* as they were, so that the key is still missing.
C2_FailureFallsBackUncached ==
    [][(Announced /\ Generative
          /\ last'.gpt_reply \in {"error", "nochoices", "null", "empty"}) =>
          /\ last'.announcement = Some(StepFallback)
          /\ last'.save_result = "none"
          /\ gpt_cache' = gpt_cache
          /\ cache_file' = cache_file
          /\ StepKey \notin DOMAIN gpt_cache']_vars

\* The service answered with an empty content while other phrases than the
\* default ones are configured.
C2_Witness ==
    /\ Generative
    /\ now_playing_text = SvNowPlaying
    /\ last.outcome = "new"
    /\ last.gpt_reply = "empty"
    /\ last.announcement # None

\* C3: in basic mode generate_announcement returns
\* "{NowPlayingText}: {song} - {ByText} - {artist}", does not call the
\* text-generation service and does not touch the cache or its file, whatever
\* the cache holds.
C3_BasicTemplateOnly ==
    [][(Announced /\ mode = ModeBasic) =>
          /\ last'.announcement =
                Some(now_playing_text \o <<":", " ">> \o StepSong
                       \o <<" ", "-", " ">> \o by_text \o <<" ", "-", " ">>
                       \o StepArtist)
          /\ last'.gpt_reply = "none"
          /\ last'.cache_hit = FALSE
          /\ last'.save_result = "none"
          /\ gpt_cache' = gpt_cache
          /\ cache_file' = cache_file]_vars

\* Basic mode with configured phrases announces a track whose key the cache
\* holds.
C3_Witness ==
    /\ mode = ModeBasic
    /\ now_playing_text = SvNowPlaying
    /\ last.outcome = "new"
    /\ last.track = Some(<<<<"a">>, <<"x">>>>)
    /\ <<"a", "|", "x", "|", "e", "n", "|", "b", "a", "s", "i", "c">>
          \in DOMAIN gpt_cache
    /\ last.announcement # None

\* C4: a poll that returns the (title, artist) recorded by the last new
\* track is not new: the call returns false, calls no collaborator and
\* changes nothing; a poll that returns any other snapshot, differing in the
\* artist only or in the title only included, runs the pipeline.
C4_DedupBySnapshot ==
    [][(PollStep /\ last'.track # None) =>
          IF last'.track = last_snapshot
          THEN /\ last'.outcome = "same"
               /\ last'.ret = FALSE
               /\ NoCollaborator(last')
               /\ UNCHANGED <<last_track, gpt_cache, cache_file, files>>
          ELSE /\ last'.outcome = "new"
               /\ last'.announcement # None
               /\ (last'.reused \/ last'.tts_reply # "none")]_vars

\* The same snapshot was polled again.
C4_Witness ==
    /\ last.op = "process"
    /\ last.query = "track"
    /\ last.outcome = "same"
    /\ last.track = last_snapshot
    /\ last.ret = FALSE

\* C5: when a new track is processed and a file exists at its path, the
\* speech service is not called, the output directory is unchanged, the
\* existing path is played and the call returns true, whether or not the
\* cache holds the track's key.
C5_ExistingFileReused ==
    [][(Announced /\ AudioPath(StepSong, StepArtist) \in DOMAIN files) =>
          /\ last'.tts_reply = "none"
          /\ files' = files
          /\ last'.played = Some(AudioPath(StepSong, StepArtist))
          /\ last'.play_result # "none"
          /\ last'.ret = TRUE]_vars

\* A file is reused for a track whose key the cache did not hold.
C5_Witness ==
    /\ Generative
    /\ last.outcome = "new"
    /\ last.reused
    /\ ~last.cache_hit
    /\ last.gpt_reply # "none"
    /\ last.ret = TRUE

\* C6: process_current_track returns true exactly when the polled track is
\* new and its audio file was reused or newly written, whether playback then
\* succeeds or fails; it returns false when the poll gives nothing, when the
\* track is the recorded one and when synthesis fails.
C6_ReturnValue ==
    [][PollStep =>
          (last'.ret = TRUE <=>
              /\ last'.track # None
              /\ last'.track # last_snapshot
              /\ \/ AudioPath(StepSong, StepArtist) \in DOMAIN files
                 \/ last'.tts_reply = "audio")]_vars

\* The call returned true although playback failed.
C6_Witness ==
    /\ last.outcome = "new"
    /\ last.ret = TRUE
    /\ last.play_result = "failed"

\* C7: when synthesis fails for a new track T (empty payload, or an error
\* of the service or of the write of the file) the call returns false, yet
\* last_track is T, and no file exists for T unless it is the write that
\* failed; and a poll that returns the track of the preceding poll again
\* calls no collaborator and changes nothing, so that T gets no audio.
C7_NoRetryAfterFailure ==
    [][PollStep =>
          /\ (last'.outcome = "new"
                /\ last'.tts_reply \in {"empty", "error", "write_fails"}) =>
                /\ last'.ret = FALSE
                /\ last_track' = Some(StepSong \o <<"|">> \o StepArtist)
                /\ last'.tts_reply # "write_fails" =>
                      AudioPath(StepSong, StepArtist) \notin DOMAIN files'
          /\ (last.op = "process" /\ last.track # None
                /\ last'.track = last.track) =>
                /\ last'.ret = FALSE
                /\ NoCollaborator(last')
                /\ UNCHANGED <<last_track, gpt_cache, cache_file, files>>]_vars

\* The track whose synthesis failed was polled again and skipped: it is the
\* recorded track and it has no audio file.
C7_Witness ==
    /\ last.outcome = "same"
    /\ last.track # None
    /\ last_track = Some(last.track[1][1] \o <<"|">> \o last.track[1][2])
    /\ AudioPath(last.track[1][1], last.track[1][2]) \notin DOMAIN files

\* C8 (as claimed): in continuous mode every failure of an iteration is
\* absorbed and the loop goes on; only the external interrupt ends
\* run_continuous.
C8_OnlyInterruptEndsLoop ==
    (~Once /\ pc # "running") => last.op = "interrupt"

\* C9 (as claimed): get_current_track never raises; on a timeout and on
\* every failure of the query it returns None, so that
\* process_current_track returns false.
C9_QueryFailureIsNone ==
    (last.op = "process" /\ last.query # "track") =>
        /\ ~last.raised
        /\ last.outcome = "none"
        /\ last.ret = FALSE
        /\ pc # "crashed"

\* C10: when the write of the cache file fails after a successful
\* generation, generate_announcement returns the generated announcement,
\* the entry is in the in-memory cache, and synthesis and playback go on.
C10_SaveFailureSwallowed ==
    [][(Announced /\ last'.save_result \in {"open_fails", "write_fails"}) =>
          /\ last'.gpt_reply \in {"text", "blank"}
          /\ last'.gpt_reply = "text" => last'.announcement = Some(<<"T">>)
          /\ last'.announcement # Some(StepFallback)
          /\ StepKey \in DOMAIN gpt_cache'
          /\ Some(gpt_cache'[StepKey]) = last'.announcement
          /\ (last'.reused \/ last'.tts_reply # "none")
          /\ last'.tts_reply = "audio" =>
                /\ last'.play_result # "none"
                /\ last'.ret = TRUE]_vars

\* The write failed, and the generated text was returned, synthesized and
\* played, and is in the cache but not in the file.
C10_Witness ==
    /\ last.save_result = "write_fails"
    /\ last.announcement = Some(<<"T">>)
    /\ last.tts_reply = "audio"
    /\ last.play_result = "ok"
    /\ last.ret = TRUE
    /\ cache_file.kind = "corrupt"
    /\ \E k \in DOMAIN gpt_cache : gpt_cache[k] = <<"T">>

\* C11 (as claimed): whatever the cache file holds at startup - nothing,
\* unreadable or unparseable text, or a JSON value that is not a mapping -
\* the cache loaded is the empty mapping, and a generate_announcement call
\* that follows is a cache miss and does not raise.
C11_LoadYieldsEmptyMapping ==
    /\ (pc = "running" /\ polls = 0 /\ cache_file.kind # "dict") =>
          (cache_type = "dict" /\ gpt_cache = EmptyDict)
    /\ (last.op = "process" /\ last.track # None /\ Generative
          /\ cache_file.kind \in {"list", "str"}) =>
          (~last.raised /\ ~last.cache_hit)

\* C12 (as claimed): when the speech-synthesis credential is missing, or
\* the text-generation credential is missing and the mode in effect is smart
\* or wizard (MODE unset, empty or invalid included), validation raises,
\* main exits with status 1 and no poll is performed.
C12_MissingCredentialIsFatal ==
    (/\ pc # "start"
     /\ \/ EnvMissing(environ.ELEVENLABS_API_KEY)
        \/ /\ EnvMissing(environ.OPENAI_API_KEY)
           /\ \/ environ.MODE = None
              \/ Lower(environ.MODE[1]) # ModeBasic) =>
        /\ pc = "crashed"
        /\ last.raised
        /\ last.outcome = "validate"
        /\ polls = 0

\* C13 (as claimed): when generate_announcement returns a newly generated
\* announcement and the write of the cache file did not fail, the file holds
\* the entry at the return; and an entry that the file holds stays in the
\* file, so that a restart at any later point loads it and the first call
\* for its key is a hit.
C13_WriteThroughSurvives ==
    [][/\ (Announced /\ last'.gpt_reply \in {"text", "blank"}
            /\ last'.save_result = "ok") =>
            /\ cache_file'.kind = "dict"
            /\ StepKey \in DOMAIN cache_file'.data
            /\ Some(cache_file'.data[StepKey]) = last'.announcement
       /\ cache_file.kind = "dict" =>
            /\ cache_file'.kind = "dict"
            /\ \A k \in DOMAIN cache_file.data :
                  /\ k \in DOMAIN cache_file'.data
                  /\ cache_file'.data[k] = cache_file.data[k]
       /\ (pc # "running" /\ pc' = "running" /\ cache_file.kind = "dict") =>
            gpt_cache' = cache_file.data]_vars

\* C14 (as claimed): in continuous mode, when an interrupt ends the loop,
\* at whatever point of an iteration it arrives, no partial write is left:
\* the cache file is as it was or holds the whole new cache, and every audio
\* file that the iteration created holds a complete payload.
C14_InterruptLeavesNoPartialWrite ==
    [][(~Once /\ pc = "running" /\ last'.op = "interrupt") =>
          /\ cache_file' \in {cache_file, DictFile(gpt_cache')}
          /\ \A path \in DOMAIN files' :
                path \notin DOMAIN files => files'[path].complete]_vars

\* C15: within a process, every step (a call that an interrupt cuts
\* included) leaves each entry of the in-memory cache in place with its
\* text; the only key a step adds is the key of the track it generated an
\* announcement for, and that key was absent.
C15_EntriesImmutable ==
    [][pc = "running" =>
          /\ \A k \in DOMAIN gpt_cache :
                /\ k \in DOMAIN gpt_cache'
                /\ gpt_cache'[k] = gpt_cache[k]
          /\ \A k \in DOMAIN gpt_cache' :
                k \notin DOMAIN gpt_cache =>
                   /\ polls' = polls + 1
                   /\ last'.track # None
                   /\ k = StepKey
                   /\ last'.gpt_reply \in {"text", "blank"}]_vars

\* An announcement was generated and added to a cache that held another
\* entry, which is still there.
C15_Witness ==
    /\ last.outcome = "new"
    /\ last.gpt_reply = "text"
    /\ Cardinality(DOMAIN gpt_cache) = 2
    /\ \E k \in DOMAIN gpt_cache : gpt_cache[k] = OldAnnouncement
    /\ \E k \in DOMAIN gpt_cache : gpt_cache[k] = <<"T">>

\* C16: an iteration changes last_track exactly when its poll returns a
\* track whose identifier differs from last_track, and then to that
\* identifier; an iteration whose poll returns nothing or the recorded
\* track leaves it as it is, and it is never reset.  So the second T of
\* T, None, ..., None, T is not new, and each track of T, U, T is new.
C16_LastTrackFrame ==
    [][PollStep =>
          /\ IF last'.track # None
                /\ Some(StepSong \o <<"|">> \o StepArtist) # last_track
             THEN /\ last_track' = Some(StepSong \o <<"|">> \o StepArtist)
                  /\ last'.outcome = "new"
                  /\ last'.announcement # None
             ELSE /\ last_track' = last_track
                  /\ ~last'.raised => last'.outcome \in {"none", "same"}
                  /\ NoCollaborator(last')
          /\ last_track # None => last_track' # None]_vars

\* The third poll of (a, x), (b, x), (a, x): (a, x) is new again, its audio
\* file of the first poll is reused, and the file of (b, x) exists.
C16_Witness ==
    /\ polls = 3
    /\ last.outcome = "new"
    /\ last.track = Some(<<<<"a">>, <<"x">>>>)
    /\ last.reused
    /\ last_track = Some(<<"a", "|", "x">>)
    /\ AudioPath(<<"b">>, <<"x">>) \in DOMAIN files

\* C17 (as claimed): for a fixed mode and language, two tracks that differ
\* in the artist or in the title have different output paths, so that a
\* track processed after a different track never plays the file that was
\* played for that track.
C17_OneFilePerTrack ==
    [][(Announced /\ last.op = "process" /\ last.outcome = "new"
          /\ last.track # last'.track /\ last.played # None) =>
          /\ AudioPath(StepSong, StepArtist)
                # AudioPath(last.track[1][1], last.track[1][2])
          /\ last'.played # last.played]_vars

\* the characters of [A-Za-z0-9_-]
AsciiNameChars ==
    {"a", "b", "c", "d", "e", "f", "g", "h", "i", "j", "k", "l", "m",
     "n", "o", "p", "q", "r", "s", "t", "u", "v", "w", "x", "y", "z",
     "A", "B", "C", "D", "E", "F", "G", "H", "I", "J", "K", "L", "M",
     "N", "O", "P", "Q", "R", "S", "T", "U", "V", "W", "X", "Y", "Z",
     "0", "1", "2", "3", "4", "5", "6", "7", "8", "9", "_", "-"}

\* the same with the letters outside ASCII
NameChars == AsciiNameChars \cup {"é", "ö", "É", "Ö"}

\* s with every maximal run of characters of seps replaced by one "_";
\* after says whether the character before s was one of seps
RECURSIVE Squeeze(_, _, _)
Squeeze(s, seps, after) ==
    IF s = <<>> THEN <<>>
    ELSE IF Head(s) \in seps
         THEN (IF after THEN <<>> ELSE <<"_">>) \o Squeeze(Tail(s), seps, TRUE)
         ELSE <<Head(s)>> \o Squeeze(Tail(s), seps, FALSE)

\* s without its leading and trailing underscores
RECURSIVE TrimUnderscores(_)
TrimUnderscores(s) ==
    IF s # <<>> /\ s[1] = "_" THEN TrimUnderscores(Tail(s))
    ELSE IF s # <<>> /\ s[Len(s)] = "_"
         THEN TrimUnderscores(SubSeq(s, 1, Len(s) - 1))
         ELSE s

\* The result as the claim describes it: the characters outside
\* [A-Za-z0-9_- ] removed, each run of whitespace replaced by one
\* underscore, leading and trailing underscores trimmed.
ClaimedSanitize(text) ==
    TrimUnderscores(
        Squeeze(SelectSeq(text, LAMBDA c : c \in AsciiNameChars \cup {" "}),
                {" ", "\n", "\t"}, FALSE))

\* The result as amended: the characters that are not a letter or digit of
\* any script, an underscore, a hyphen or whitespace removed, each run of
\* whitespace and underscores replaced by one underscore, leading and
\* trailing underscores trimmed.
AmendedSanitize(text) ==
    TrimUnderscores(
        Squeeze(SelectSeq(text, LAMBDA c : c \in NameChars \cup {" ", "\n", "\t"}),
                {" ", "\n", "\t", "_"}, FALSE))

\* C18 (as claimed): _sanitize_filename returns the text with every
\* character outside [A-Za-z0-9_- ] removed (letters outside ASCII
\* included), each run of whitespace replaced by one underscore and leading
\* and trailing underscores trimmed; the result has only characters of
\* [A-Za-z0-9_-] and neither starts nor ends with an underscore.
C18_SanitizeAsClaimed ==
    last.op = "sanitize" =>
        /\ last.sanitized = Some(ClaimedSanitize(last.text[1]))
        /\ \A i \in 1..Len(last.sanitized[1]) :
              last.sanitized[1][i] \in AsciiNameChars
        /\ last.sanitized[1] # <<>> =>
              /\ last.sanitized[1][1] # "_"
              /\ last.sanitized[1][Len(last.sanitized[1])] # "_"

\* C18 (amended): _sanitize_filename returns the text with every character
\* removed that is not a letter or digit of any script, an underscore, a
\* hyphen or whitespace, each run of whitespace and underscores replaced by
\* one underscore, and leading and trailing underscores trimmed; the result
\* has only letters, digits, underscores and hyphens, neither starts nor
\* ends with an underscore and has no two underscores in a row.
C18_SanitizeAmended ==
    last.op = "sanitize" =>
        /\ last.sanitized = Some(AmendedSanitize(last.text[1]))
        /\ \A i \in 1..Len(last.sanitized[1]) :
              last.sanitized[1][i] \in NameChars
        /\ last.sanitized[1] # <<>> =>
              /\ last.sanitized[1][1] # "_"
              /\ last.sanitized[1][Len(last.sanitized[1])] # "_"
        /\ \A i \in 1..(Len(last.sanitized[1]) - 1) :
              ~(last.sanitized[1][i] = "_" /\ last.sanitized[1][i + 1] = "_")

\* A text with a letter outside ASCII, a space next to an underscore and a
\* punctuation mark was sanitized: the letter is kept and one underscore
\* stands for the space and the underscore.
C18_Witness ==
    /\ last.op = "sanitize"
    /\ last.text = Some(<<"é", " ", "_", "a">>)
    /\ last.sanitized = Some(<<"é", "_", "a">>)

\* the tracks that the polls of Spec return
PolledTracks ==
    { <<<<"a">>, <<"x">>>>, <<<<"a">>, <<"y">>>>, <<<<"b">>, <<"x">>>> }

\* C19 (as claimed): in smart and wizard mode, whenever the audio file of a
\* track exists and the cache holds the track's key, the file was
\* synthesized from the cached text; an audio of the fallback text is not
\* the one reused once a generation for the track has succeeded.
C19_AudioMatchesCachedText ==
    Generative =>
        \A tr \in PolledTracks :
            (/\ AudioPath(tr[1], tr[2]) \in DOMAIN files
             /\ (tr[1] \o <<"|">> \o tr[2] \o <<"|", "e", "n", "|">> \o mode)
                    \in DOMAIN gpt_cache) =>
                files[AudioPath(tr[1], tr[2])].text =
                    gpt_cache[tr[1] \o <<"|">> \o tr[2]
                                \o <<"|", "e", "n", "|">> \o mode]

\* C20 (as claimed): every text in the cache and in its file is a non-empty
\* string; a reply of the text-generation service whose content is empty
\* once its whitespace is trimmed is a failure: the fallback is returned and
\* nothing is cached or written.
C20_CachedTextNonEmpty ==
    /\ \A k \in DOMAIN gpt_cache : gpt_cache[k] # <<>>
    /\ cache_file.kind = "dict" =>
          \A k \in DOMAIN cache_file.data : cache_file.data[k] # <<>>
    /\ (last.op = "process" /\ last.gpt_reply = "blank") =>
          /\ last.announcement =
                Some(<<"N", "o", "w", " ", "p", "l", "a", "y", "i", "n", "g",
                       ":", " ">> \o last.track[1][1]
                       \o <<" ", "-", " ", "b", "y", " ", "-", " ">>
                       \o last.track[1][2])
          /\ last.save_result = "none"

====
